---- MODULE Spec2Model ----
(***************************************************************************)
(* Sunny-Flowers: a Discord voice bot (src/src/discord.rs).                *)
(*                                                                         *)
(* The model covers the six command handlers (join, leave, play, skip,     *)
(* stop, ping), the two voice event handlers registered by join            *)
(* (TrackEndNotifier, TimeoutHandler) and the collaborators they call: the *)
(* songbird manager's map of calls, the gateway cache's voice states and   *)
(* the source resolver.  A collaborator call that can fail is a            *)
(* nondeterministic choice between its outcomes.                           *)
(*                                                                         *)
(* Spec and SpecH take each handler as one step; SpecJ takes join and      *)
(* leave alone; SpecS adds the outcome of every message sent; SpecC runs   *)
(* the handlers of one guild concurrently, a statement at a time, under    *)
(* the lock of the guild's Call.                                           *)
(***************************************************************************)
EXTENDS Integers, Sequences, FiniteSets, TLC

VARIABLES
    voice_states,   \* the cache: guild id -> (member id -> voice channel or None)
    calls,          \* the songbird manager: guild id -> Call, for the guilds it holds
    ev,             \* the last unit of work the runtime dispatched and what it did
    hist,           \* history of the watchdogs' ticks (no program state)
    out,            \* what became of the last command's messages: the outcome of
                    \* each send, the lines logged, the handler's CommandResult
    tasks,          \* the command handlers running concurrently for one guild: the
                    \* command, where it is, the Arc<Mutex<Call>> it got, what it read
    arcs,           \* every Arc<Mutex<Call>> the manager created for that guild: the
                    \* Call, the holder of its lock, the last handler that mutated it
    manager,        \* the manager's entry for that guild: an index of arcs, or 0
    started         \* the number of commands dispatched to tasks

\* The state of the handlers taken one statement at a time.
conc == <<tasks, arcs, manager, started>>

vars == <<voice_states, calls, ev, hist, out, tasks, arcs, manager, started>>

----------------------------------------------------------------------------
(* Identifiers and inputs *)

None == "None"
BotId == "bot"
UserIds == {"u1"}
MemberIds == UserIds \cup {BotId}
GuildIds == {"g1"}
\* Voice channels and text channels draw their ids from one id space.
ChannelIds == {"c1", "c2"}

\* `prev >= 5` in TimeoutHandler::act
IdleThreshold == 5
\* #[max_args(1)] on play
max_args == 1

\* A watchdog is ticked while its counter (and, where history is kept, its run
\* of empty ticks) stays below MaxTimer.
MaxTimer == 7
\* play is taken while the queue is shorter than MaxQueue.
MaxQueue == 2
\* join is taken while the call holds fewer than MaxEvents watchdogs.
MaxEvents == 1

\* The argument lists play is tried with.
PlayArgs ==
    { <<>>,
      <<"ftp://x">>,
      <<"htt">>,
      <<"https://a.test/x.mp3">>,
      <<"httpx">>,
      <<"https://a.test/x.mp3", "https://b.test/y.mp3">>,
      <<"ftp://x", "https://b.test/y.mp3">> }

Results == {"Ok", "Err"}

----------------------------------------------------------------------------
(* Pure helpers *)

\* str::starts_with
starts_with(s, prefix) ==
    /\ Len(s) >= Len(prefix)
    /\ SubSeq(s, 1, Len(prefix)) = prefix

\* ChannelId::mention
mention(c) == "<#" \o c \o ">"

\* check_alone: no voice state is in channel_id under a user id other than bot_id
check_alone(guild, channel_id, bot_id) ==
    ~ \E u \in DOMAIN guild :
        /\ guild[u] # None
        /\ channel_id = guild[u]
        /\ u # bot_id

\* the test `prev >= 5` on the value fetch_add returned
expired(prev) == prev >= IdleThreshold

\* msg.guild(..).voice_states.get(&author).and_then(|vs| vs.channel_id)
author_channel(guild, author) ==
    IF author \in DOMAIN guild THEN guild[author] ELSE None

----------------------------------------------------------------------------
(* The songbird manager *)

\* manager.get(guild_id).is_some()
has_handler(cs, g) == g \in DOMAIN cs

\* A Call as get_or_insert creates it.
NewCall ==
    [ channel   |-> None,
      connected |-> FALSE,
      deaf      |-> FALSE,
      queue     |-> <<>>,
      track_end |-> <<>>,
      periodic  |-> <<>> ]

\* manager.join(guild_id, connect_to): get_or_insert the Call, then connect it.
\* A failed attempt leaves the Call as it was (a new one unconnected).
mgr_join(cs, g, connect_to, success) ==
    LET call == IF has_handler(cs, g) THEN cs[g] ELSE NewCall
        joined == IF success = "Ok"
                  THEN [call EXCEPT !.channel = connect_to, !.connected = TRUE]
                  ELSE call
    IN  [h \in DOMAIN cs \cup {g} |-> IF h = g THEN joined ELSE cs[h]]

\* manager.leave called in place of manager.remove: the connection is closed and
\* the Call stays in the manager, with its queue and its event handlers.
mgr_remove_keeps_call(cs, g, res) ==
    IF res = "Ok" THEN [cs EXCEPT ![g].connected = FALSE] ELSE cs

\* manager.remove(guild_id): leave, and only when that succeeded drop the Call
\* with its queue and its event handlers.
mgr_remove(cs, g, res) ==
    IF res = "Ok" THEN [h \in DOMAIN cs \ {g} |-> cs[h]] ELSE cs

\* The cache after the gateway reported the bot's own voice state.
bot_moved(vs, g, c) == [vs EXCEPT ![g][BotId] = c]

----------------------------------------------------------------------------
(* What a unit of work did *)

NoEv ==
    [ op       |-> "init",
      guild    |-> None,
      args     |-> <<>>,    \* play: the arguments of the command;
                            \* join: the author and the text channel of the message
      replies  |-> <<>>,    \* the messages sent, in order
      resolved |-> FALSE,   \* Restartable::ytdl was called
      source   |-> "none",  \* the outcome of Restartable::ytdl, if it was called
      remove   |-> "none",  \* the outcome of manager.remove, if it was called
      success  |-> "none",  \* the outcome of manager.join, if it was called
      before   |-> 0,       \* skip, stop: the length of the queue when the command came
      index    |-> 0,       \* a tick: which of the call's watchdogs ran
      alone    |-> FALSE,   \* a tick: what check_alone returned
      fresh    |-> FALSE,   \* a tick: check_alone on the cache's voice states now
      empty    |-> FALSE,   \* a tick: nobody but the bot is in the bot's voice channel
      timer    |-> 0 ]      \* a tick: the counter after the tick

Done(op, g, replies) == [NoEv EXCEPT !.op = op, !.guild = g, !.replies = replies]

\* The history of the watchdogs, kept beside the program's state.
NoHist ==
    [ idle     |-> [g \in GuildIds |-> <<>>],  \* per watchdog of the guild's call: its
                                               \* run of consecutive ticks with `empty`
      run      |-> 0,                          \* that run at the last tick, the tick included
      requests |-> [g \in GuildIds |-> 0],     \* manager.remove calls by the watchdogs of
                                               \* the guild's present (or last) call
      notices  |-> [g \in GuildIds |-> 0] ]    \* "Left voice due to ..." messages, likewise

\* The tasks the runtime runs command handlers on at the same time.
TaskIds == {"t1", "t2"}

\* Commands dispatched to the tasks in one run.
MaxCommands == 3

\* A task with no command to run.
IdleTask == [ cmd |-> "none", pc |-> "idle", call |-> 0, len |-> 0 ]

\* No command has run.
NoOut == [ sent |-> <<>>, log |-> <<>>, result |-> "none" ]

----------------------------------------------------------------------------
(* Initial state: the bot is connected to the gateway, in no voice channel. *)

Init ==
    /\ voice_states \in [GuildIds -> [MemberIds -> {None}]]
    /\ calls = [h \in {} |-> NewCall]
    /\ ev = NoEv
    /\ hist = NoHist
    /\ out = NoOut
    /\ tasks = [t \in TaskIds |-> IdleTask]
    /\ arcs = <<>>
    /\ manager = 0
    /\ started = 0

----------------------------------------------------------------------------
(* The gateway: a member enters, changes or leaves a voice channel. *)

VoiceStateUpdate(g, u, c) ==
    /\ voice_states[g][u] # c
    /\ voice_states' = [voice_states EXCEPT ![g][u] = c]
    /\ ev' = Done("voice_state_update", g, <<>>)
    /\ UNCHANGED calls

----------------------------------------------------------------------------
(* join *)

\* TimeoutHandler { guild, channel_id, timer: Default::default(), ctx }
NewTimeoutHandler(guild, channel_id) ==
    [ guild |-> guild, channel_id |-> channel_id, timer |-> 0 ]

\* The watchdog alone is registered, without the end-of-track notifier.
add_events_without_notifier(call, guild, channel_id) ==
    [call EXCEPT !.periodic = Append(@, NewTimeoutHandler(guild, channel_id))]

\* handle.add_global_event x 2, under the call's lock
add_events(call, guild, channel_id) ==
    [call EXCEPT !.track_end = Append(@, [channel_id |-> channel_id]),
                 !.periodic = Append(@, NewTimeoutHandler(guild, channel_id))]

\* deafen(handle_lock)
deafen(call) == [call EXCEPT !.deaf = TRUE]

\* Registrations on one call explored when only join and leave are issued.
MaxRejoin == 2

\* The call of the guild holds fewer than max watchdogs: join is explored up to
\* that many registrations on one call.
CanRegister(g, max) == has_handler(calls, g) => Len(calls[g].periodic) < max

join(g, author, text_channel) ==
    LET guild == voice_states[g]
        connect_to == author_channel(guild, author)
        done(replies) == [Done("join", g, replies) EXCEPT !.args = <<author, text_channel>>]
    IN
    IF connect_to = None
    THEN /\ ev' = done(<<"Not in a voice">>)
         /\ UNCHANGED <<voice_states, calls>>
    ELSE \E success \in Results :
           LET cs == mgr_join(calls, g, connect_to, success)
               registered ==
                   IF success = "Ok"
                   THEN add_events(cs[g], guild, text_channel)
                   ELSE cs[g]
           IN  /\ calls' = [cs EXCEPT ![g] = deafen(registered)]
               /\ voice_states' =
                     IF success = "Ok"
                     THEN bot_moved(voice_states, g, connect_to)
                     ELSE voice_states
               /\ ev' = [done(IF success = "Ok"
                              THEN <<"Joined " \o mention(connect_to)>>
                              ELSE <<"Failed to join channel">>)
                           EXCEPT !.success = success]

----------------------------------------------------------------------------
(* leave *)

leave(g) ==
    IF has_handler(calls, g)
    THEN \E res \in Results :
           /\ calls' = mgr_remove(calls, g, res)
           /\ voice_states' =
                 IF res = "Ok" THEN bot_moved(voice_states, g, None) ELSE voice_states
           /\ ev' = [Done("leave", g,
                          IF res = "Err"
                          THEN <<"Failed: Err", "Left voice">>
                          ELSE <<"Left voice">>)
                     EXCEPT !.remove = res]
    ELSE /\ ev' = Done("leave", g, <<"Not in a voice channel">>)
         /\ UNCHANGED <<voice_states, calls>>

----------------------------------------------------------------------------
(* TimeoutHandler::act, the periodic event of watchdog i of guild g's call *)

TimeoutHandler_act(g, i) ==
    /\ has_handler(calls, g)
    /\ i \in 1..Len(calls[g].periodic)
    /\ LET w == calls[g].periodic[i]
           alone == check_alone(w.guild, w.channel_id, BotId)
           tick == [Done("tick", g, <<>>) EXCEPT
                      !.index = i,
                      !.alone = alone,
                      !.fresh = check_alone(voice_states[g], w.channel_id, BotId),
                      !.empty = check_alone(voice_states[g], calls[g].channel, BotId)]
       IN
       /\ w.timer < MaxTimer
       /\ IF alone
          THEN LET prev == w.timer
                   cs == [calls EXCEPT ![g].periodic[i].timer = prev + 1]
               IN  IF expired(prev)
                   THEN \E res \in Results :
                          /\ calls' = mgr_remove(cs, g, res)
                          /\ voice_states' =
                                IF res = "Ok"
                                THEN bot_moved(voice_states, g, None)
                                ELSE voice_states
                          /\ ev' = [tick EXCEPT
                                      !.timer = prev + 1,
                                      !.remove = res,
                                      !.replies = <<"Left voice due to lack of frens :(((">>]
                   ELSE /\ calls' = cs
                        /\ ev' = [tick EXCEPT !.timer = prev + 1]
                        /\ UNCHANGED voice_states
          ELSE /\ calls' = [calls EXCEPT ![g].periodic[i].timer = 0]
               /\ ev' = [tick EXCEPT !.timer = 0]
               /\ UNCHANGED voice_states

----------------------------------------------------------------------------
(* play *)

\* #[max_args(1)]: the framework's dispatch refuses the command before the
\* handler runs; no dispatch-error hook is configured, so nothing is sent.
too_many_args_unchecked(args) == FALSE

too_many_args(args) == Len(args) > max_args

\* args.single::<String>() is Ok
single_ok(args) == args # <<>>

valid_url_inverted(url) == ~starts_with(url, "http")

\* url.starts_with("http")
valid_url(url) == starts_with(url, "http")

\* The length of the queue less one: the index of its last entry.
queue_len_zero_based(queue) == Len(queue) - 1

\* handler.queue().len()
queue_len(queue) == Len(queue)

\* handler.enqueue_source(source.into())
enqueue_source(call, source) == [call EXCEPT !.queue = Append(@, source)]

DonePlay(g, args, replies) == [Done("play", g, replies) EXCEPT !.args = args]

\* play without the return at the end of the Err arm of the source match: the
\* error is reported and the command goes on to enqueue.
play_without_return_on_error(g, args) ==
    IF too_many_args(args)
    THEN /\ ev' = DonePlay(g, args, <<>>)
         /\ UNCHANGED <<voice_states, calls>>
    ELSE IF ~single_ok(args)
    THEN /\ ev' = DonePlay(g, args, <<"Must provide a URL to a video or audio">>)
         /\ UNCHANGED <<voice_states, calls>>
    ELSE IF ~valid_url(Head(args))
    THEN /\ ev' = DonePlay(g, args, <<"Must provide a valid URL">>)
         /\ UNCHANGED <<voice_states, calls>>
    ELSE IF has_handler(calls, g)
    THEN \E source \in Results :
           /\ Len(calls[g].queue) < MaxQueue
           /\ LET call == enqueue_source(calls[g], Head(args))
                  added == "Added song to queue: position "
                             \o ToString(queue_len(call.queue))
              IN  /\ calls' = [calls EXCEPT ![g] = call]
                  /\ ev' = [DonePlay(g, args,
                                 IF source = "Err"
                                 THEN <<"Error sourcing ffmpeg", added>>
                                 ELSE <<added>>)
                            EXCEPT !.resolved = TRUE, !.source = source]
           /\ UNCHANGED voice_states
    ELSE /\ ev' = DonePlay(g, args, <<"Not in a voice channel to play in">>)
         /\ UNCHANGED <<voice_states, calls>>

play(g, args) ==
    IF too_many_args(args)
    THEN /\ ev' = DonePlay(g, args, <<>>)
         /\ UNCHANGED <<voice_states, calls>>
    ELSE IF ~single_ok(args)
    THEN /\ ev' = DonePlay(g, args, <<"Must provide a URL to a video or audio">>)
         /\ UNCHANGED <<voice_states, calls>>
    ELSE IF ~valid_url(Head(args))
    THEN /\ ev' = DonePlay(g, args, <<"Must provide a valid URL">>)
         /\ UNCHANGED <<voice_states, calls>>
    ELSE IF has_handler(calls, g)
    THEN \E source \in Results :
           IF source = "Err"
           THEN /\ ev' = [DonePlay(g, args, <<"Error sourcing ffmpeg">>)
                          EXCEPT !.resolved = TRUE, !.source = "Err"]
                /\ UNCHANGED <<voice_states, calls>>
           ELSE /\ Len(calls[g].queue) < MaxQueue
                /\ LET call == enqueue_source(calls[g], Head(args))
                   IN  /\ calls' = [calls EXCEPT ![g] = call]
                       /\ ev' = [DonePlay(g, args,
                                      <<"Added song to queue: position "
                                          \o ToString(queue_len(call.queue))>>)
                                 EXCEPT !.resolved = TRUE, !.source = "Ok"]
                /\ UNCHANGED voice_states
    ELSE /\ ev' = DonePlay(g, args, <<"Not in a voice channel to play in">>)
         /\ UNCHANGED <<voice_states, calls>>

----------------------------------------------------------------------------
(* skip, stop, ping *)

\* queue.skip(): the current track is told to stop; the queue's own end-of-track
\* handler then drops it from the queue.
queue_skip(queue) == IF queue = <<>> THEN queue ELSE Tail(queue)

\* The current track alone is stopped and dropped.
queue_stop_current_only(queue) == IF queue = <<>> THEN queue ELSE Tail(queue)

\* queue.stop(): every track is stopped and the queue is drained.
queue_stop(queue) == <<>>

\* skip reads queue.len() right after queue.skip(); the drop of the stopped track
\* runs on the driver's event task, before or after that read.
skip(g) ==
    IF has_handler(calls, g)
    THEN \E len \in {queue_len(calls[g].queue), queue_len(queue_skip(calls[g].queue))} :
           /\ calls' = [calls EXCEPT ![g].queue = queue_skip(@)]
           /\ ev' = [Done("skip", g,
                          <<"Song skipped: " \o ToString(len) \o " in queue.">>)
                       EXCEPT !.before = Len(calls[g].queue)]
           /\ UNCHANGED voice_states
    ELSE /\ ev' = Done("skip", g, <<"Not in a voice channel">>)
         /\ UNCHANGED <<voice_states, calls>>

stop_without_lookup(g) ==
    /\ calls' = IF has_handler(calls, g)
                THEN [calls EXCEPT ![g].queue = queue_stop(@)]
                ELSE calls
    /\ ev' = Done("stop", g, <<"Queue cleared.">>)
    /\ UNCHANGED voice_states

stop(g) ==
    IF has_handler(calls, g)
    THEN /\ calls' = [calls EXCEPT ![g].queue = queue_stop(@)]
         /\ ev' = [Done("stop", g, <<"Queue cleared.">>)
                     EXCEPT !.before = Len(calls[g].queue)]
         /\ UNCHANGED voice_states
    ELSE /\ ev' = Done("stop", g, <<"Not in a voice channel">>)
         /\ UNCHANGED <<voice_states, calls>>

ping(g) ==
    /\ ev' = Done("ping", g, <<"Pong!">>)
    /\ UNCHANGED <<voice_states, calls>>

----------------------------------------------------------------------------
(* TrackEndNotifier::act: the current track of a connected call ends; every
   registered notifier reports the one track that ended. *)

TrackEndNotifier_act(g) ==
    /\ has_handler(calls, g)
    /\ calls[g].connected
    /\ calls[g].queue # <<>>
    /\ calls' = [calls EXCEPT ![g].queue = Tail(@)]
    /\ ev' = Done("track_end", g,
                  [k \in 1..Len(calls[g].track_end) |-> "Tracks ended: " \o ToString(1)])
    /\ UNCHANGED voice_states

----------------------------------------------------------------------------
(* History of the watchdogs, kept beside the program's state *)

\* hist after the step that produced ev' and calls'
Observed ==
    LET e == ev'
        g == e.guild
        held == g \in DOMAIN calls'
    IN  IF e.op = "tick"
        THEN LET n == IF e.empty THEN hist.idle[g][e.index] + 1 ELSE 0
             IN  [hist EXCEPT
                    !.idle[g] = IF held THEN [@ EXCEPT ![e.index] = n] ELSE <<>>,
                    !.run = n,
                    !.requests[g] = IF e.remove # "none" THEN @ + 1 ELSE @,
                    !.notices[g] = @ + Len(e.replies)]
        ELSE IF e.op = "join" /\ held
        THEN [hist EXCEPT
                !.idle[g] = IF Len(calls'[g].periodic) > Len(@) THEN Append(@, 0) ELSE @,
                !.requests[g] = IF g \in DOMAIN calls THEN @ ELSE 0,
                !.notices[g] = IF g \in DOMAIN calls THEN @ ELSE 0]
        ELSE IF e.op = "leave" /\ ~held
        THEN [hist EXCEPT !.idle[g] = <<>>]
        ELSE hist

NoHistory == UNCHANGED <<hist, out, conc>>

History ==
    /\ hist' = Observed
    /\ UNCHANGED <<out, conc>>
    /\ \A g \in GuildIds : \A k \in 1..Len(hist'.idle[g]) : hist'.idle[g][k] <= MaxTimer

----------------------------------------------------------------------------
(* The program: every unit of work the runtime can dispatch *)

Next ==
    \/ \E g \in GuildIds, u \in UserIds, c \in ChannelIds \cup {None} :
          VoiceStateUpdate(g, u, c) /\ NoHistory
    \/ \E g \in GuildIds, u \in UserIds, t \in ChannelIds :
          CanRegister(g, MaxEvents) /\ join(g, u, t) /\ NoHistory
    \/ \E g \in GuildIds : leave(g) /\ NoHistory
    \/ \E g \in GuildIds, args \in PlayArgs : play(g, args) /\ NoHistory
    \/ \E g \in GuildIds : skip(g) /\ NoHistory
    \/ \E g \in GuildIds : stop(g) /\ NoHistory
    \/ \E g \in GuildIds : ping(g) /\ NoHistory
    \/ \E g \in GuildIds, i \in 1..MaxEvents : TimeoutHandler_act(g, i) /\ NoHistory
    \/ \E g \in GuildIds : TrackEndNotifier_act(g) /\ NoHistory

Spec == Init /\ [][Next]_vars

\* The same program, with the watchdogs' history recorded.
NextH ==
    \/ \E g \in GuildIds, u \in UserIds, c \in ChannelIds \cup {None} :
          VoiceStateUpdate(g, u, c) /\ History
    \/ \E g \in GuildIds, u \in UserIds, t \in ChannelIds :
          CanRegister(g, MaxEvents) /\ join(g, u, t) /\ History
    \/ \E g \in GuildIds : leave(g) /\ History
    \/ \E g \in GuildIds, args \in PlayArgs : play(g, args) /\ History
    \/ \E g \in GuildIds : skip(g) /\ History
    \/ \E g \in GuildIds : stop(g) /\ History
    \/ \E g \in GuildIds : ping(g) /\ History
    \/ \E g \in GuildIds, i \in 1..MaxEvents : TimeoutHandler_act(g, i) /\ History
    \/ \E g \in GuildIds : TrackEndNotifier_act(g) /\ History

SpecH == Init /\ [][NextH]_vars

----------------------------------------------------------------------------
(* The messages of a command: each send succeeds or fails *)

Commands == {"join", "leave", "play", "skip", "stop", "ping"}

\* check_msg(result): a failed send is logged, and nothing is returned
check_msg(result) == IF result = "Err" THEN <<"Error sending message">> ELSE <<>>

RECURSIVE check_msgs(_)
\* check_msg on the result of each send of the handler, in order
check_msgs(sent) ==
    IF sent = <<>> THEN <<>> ELSE check_msg(Head(sent)) \o check_msgs(Tail(sent))

\* A handler that hands the first failure of a send to its caller.
handler_result_propagating(sent) ==
    IF \E i \in 1..Len(sent) : sent[i] = "Err" THEN "Err" ELSE "Ok"

\* Ok(()) at the end of every command handler, and at its early returns
handler_result(sent) == "Ok"

\* out after the command that produced ev': play logs a source that failed to
\* resolve before it reports it.
Sent(sent) ==
    [ sent   |-> sent,
      log    |-> (IF ev'.source = "Err" THEN <<"Err starting source">> ELSE <<>>)
                   \o check_msgs(sent),
      result |-> handler_result(sent) ]

Sending ==
    /\ UNCHANGED <<hist, conc>>
    /\ IF ev'.op \in Commands
       THEN \E sent \in [1..Len(ev'.replies) -> Results] : out' = Sent(sent)
       ELSE out' = NoOut

NextS ==
    \/ \E g \in GuildIds, u \in UserIds, c \in ChannelIds \cup {None} :
          VoiceStateUpdate(g, u, c) /\ Sending
    \/ \E g \in GuildIds, u \in UserIds, t \in ChannelIds :
          CanRegister(g, MaxEvents) /\ join(g, u, t) /\ Sending
    \/ \E g \in GuildIds : leave(g) /\ Sending
    \/ \E g \in GuildIds, args \in PlayArgs : play(g, args) /\ Sending
    \/ \E g \in GuildIds : skip(g) /\ Sending
    \/ \E g \in GuildIds : stop(g) /\ Sending
    \/ \E g \in GuildIds : ping(g) /\ Sending

SpecS == Init /\ [][NextS]_vars

----------------------------------------------------------------------------
(* The command handlers of one guild run concurrently, a statement at a time *)

\* The guild the concurrent commands are sent in, and what they are sent with.
TheGuild == CHOOSE g \in GuildIds : TRUE
TheUrl == "https://a.test/x.mp3"
TheChannel == CHOOSE c \in ChannelIds : TRUE

\* Arc::new(Mutex::new(Call::new(..))), as get_or_insert makes it
NewArc == [ call |-> NewCall, lock |-> None, last |-> None, stopped |-> FALSE ]

\* A lock taken whoever holds it.
lock_without_waiting(t, c) == arcs' = [arcs EXCEPT ![c].lock = t]

\* handler_lock.lock().await returns: the lock was free and t holds it
lock(t, c) ==
    /\ arcs[c].lock = None
    /\ arcs' = [arcs EXCEPT ![c].lock = t]

At(t, cmd, pc) == tasks[t].cmd = cmd /\ tasks[t].pc = pc

Goto(t, pc) == tasks' = [tasks EXCEPT ![t].pc = pc]

\* return Ok(())
Return(t) == tasks' = [tasks EXCEPT ![t] = IdleTask]

\* The framework dispatches a command to a task.
start(t, cmd) ==
    /\ tasks[t].pc = "idle"
    /\ started < MaxCommands
    /\ started' = started + 1
    /\ tasks' = [tasks EXCEPT ![t] = [IdleTask EXCEPT !.cmd = cmd, !.pc = "get"]]
    /\ UNCHANGED <<arcs, manager>>

\* play, skip, stop: if let Some(handler_lock) = manager.get(guild_id), else the
\* "Not in a voice channel" message
get(t) ==
    /\ tasks[t].cmd \in {"play", "skip", "stop"}
    /\ tasks[t].pc = "get"
    /\ IF manager = 0
       THEN Return(t)
       ELSE tasks' = [tasks EXCEPT ![t].call = manager, ![t].pc = "lock"]
    /\ UNCHANGED <<arcs, manager, started>>

\* play, skip, stop: let handler = handler_lock.lock().await
lock_call(t) ==
    /\ tasks[t].cmd \in {"play", "skip", "stop"}
    /\ tasks[t].pc = "lock"
    /\ lock(t, tasks[t].call)
    /\ Goto(t, CASE tasks[t].cmd = "play" -> "ytdl"
                 [] tasks[t].cmd = "skip" -> "skip"
                 [] OTHER -> "stop")
    /\ UNCHANGED <<manager, started>>

\* play: Restartable::ytdl(url, true).await; the Err arm sends its message and
\* returns, which drops the guard
play_ytdl(t) ==
    /\ At(t, "play", "ytdl")
    /\ \E source \in Results :
         IF source = "Err"
         THEN /\ arcs' = [arcs EXCEPT ![tasks[t].call].lock = None]
              /\ Return(t)
         ELSE /\ Goto(t, "enqueue")
              /\ UNCHANGED arcs
    /\ UNCHANGED <<manager, started>>

\* play: handler.enqueue_source(source.into())
play_enqueue(t) ==
    /\ At(t, "play", "enqueue")
    /\ arcs' = [arcs EXCEPT ![tasks[t].call].call = enqueue_source(@, TheUrl),
                            ![tasks[t].call].last = t]
    /\ Goto(t, "len")
    /\ UNCHANGED <<manager, started>>

\* skip: queue.skip() tells the current track, if there is one, to stop
skip_skip(t) ==
    /\ At(t, "skip", "skip")
    /\ arcs' = [arcs EXCEPT ![tasks[t].call].stopped = (@ \/ arcs[tasks[t].call].call.queue # <<>>),
                            ![tasks[t].call].last = t]
    /\ Goto(t, "len")
    /\ UNCHANGED <<manager, started>>

\* play: handler.queue().len(); skip: queue.len()
read_len(t) ==
    /\ tasks[t].cmd \in {"play", "skip"}
    /\ tasks[t].pc = "len"
    /\ tasks' = [tasks EXCEPT ![t].len = queue_len(arcs[tasks[t].call].call.queue),
                              ![t].pc = "say"]
    /\ UNCHANGED <<arcs, manager, started>>

\* stop: queue.stop() stops every track and drains the queue
stop_stop(t) ==
    /\ At(t, "stop", "stop")
    /\ arcs' = [arcs EXCEPT ![tasks[t].call].call.queue = queue_stop(@),
                            ![tasks[t].call].stopped = FALSE,
                            ![tasks[t].call].last = t]
    /\ Goto(t, "say")
    /\ UNCHANGED <<manager, started>>

\* play, skip, stop: the message is sent, the if let block ends and drops the
\* guard, and the handler returns
say(t) ==
    /\ tasks[t].cmd \in {"play", "skip", "stop"}
    /\ tasks[t].pc = "say"
    /\ arcs' = [arcs EXCEPT ![tasks[t].call].lock = None]
    /\ Return(t)
    /\ UNCHANGED <<manager, started>>

\* The driver: a track told to stop has ended, and the queue drops it.
driver(c) ==
    /\ arcs[c].stopped
    /\ arcs' = [arcs EXCEPT ![c].call.queue = queue_skip(@), ![c].stopped = FALSE]
    /\ UNCHANGED <<tasks, manager, started>>

\* join: manager.join begins with get_or_insert, which makes the guild's Call
\* when the manager holds none
join_get_or_insert(t) ==
    /\ At(t, "join", "get")
    /\ IF manager = 0
       THEN /\ arcs' = Append(arcs, NewArc)
            /\ manager' = Len(arcs) + 1
       ELSE UNCHANGED <<arcs, manager>>
    /\ tasks' = [tasks EXCEPT ![t].call = manager', ![t].pc = "connect_lock"]
    /\ UNCHANGED started

\* join: manager.join locks the Call to connect it
join_connect_lock(t) ==
    /\ At(t, "join", "connect_lock")
    /\ lock(t, tasks[t].call)
    /\ Goto(t, "connect")
    /\ UNCHANGED <<manager, started>>

\* join: manager.join connects or fails to, and has released the lock when it
\* returns; the handler sends "Joined .." or "Failed to join channel"
join_connect(t) ==
    /\ At(t, "join", "connect")
    /\ \E success \in Results :
         /\ arcs' = [arcs EXCEPT
                       ![tasks[t].call].call =
                          IF success = "Ok"
                          THEN [@ EXCEPT !.channel = TheChannel, !.connected = TRUE]
                          ELSE @,
                       ![tasks[t].call].lock = None]
         /\ Goto(t, IF success = "Ok" THEN "events_lock" ELSE "deafen_lock")
    /\ UNCHANGED <<manager, started>>

\* join: let mut handle = handle_lock.lock().await, in the Ok block
join_events_lock(t) ==
    /\ At(t, "join", "events_lock")
    /\ lock(t, tasks[t].call)
    /\ Goto(t, "events")
    /\ UNCHANGED <<manager, started>>

\* The guard of the Ok block bound in the scope of the whole handler: it is
\* still held when deafen is called.
handle_kept(t) == t

\* join: the Ok block ends and drops `handle`, the guard
handle_dropped(t) == None

\* join: handle.add_global_event x 2, to the end of the Ok block
join_events(t) ==
    /\ At(t, "join", "events")
    /\ arcs' = [arcs EXCEPT
                  ![tasks[t].call].call =
                     add_events(@, voice_states[TheGuild], TheChannel),
                  ![tasks[t].call].lock = handle_dropped(t)]
    /\ Goto(t, "deafen_lock")
    /\ UNCHANGED <<manager, started>>

\* deafen: let mut handler = handler_lock.lock().await
deafen_lock(t) ==
    /\ At(t, "join", "deafen_lock")
    /\ lock(t, tasks[t].call)
    /\ Goto(t, "deafen")
    /\ UNCHANGED <<manager, started>>

\* deafen: handler.deafen(true) unless is_deaf; deafen returns and drops the
\* guard, and join returns
deafen_deafen(t) ==
    /\ At(t, "join", "deafen")
    /\ arcs' = [arcs EXCEPT ![tasks[t].call].call = deafen(@),
                            ![tasks[t].call].lock = None]
    /\ Return(t)
    /\ UNCHANGED <<manager, started>>

\* leave: manager.get(guild_id).is_some(), else "Not in a voice channel"
leave_has_handler(t) ==
    /\ At(t, "leave", "get")
    /\ IF manager = 0 THEN Return(t) ELSE Goto(t, "remove")
    /\ UNCHANGED <<arcs, manager, started>>

\* leave: manager.remove looks the Call up again; with none left it fails (the
\* handler sends the error and "Left voice")
leave_remove_get(t) ==
    /\ At(t, "leave", "remove")
    /\ IF manager = 0
       THEN Return(t)
       ELSE tasks' = [tasks EXCEPT ![t].call = manager, ![t].pc = "remove_lock"]
    /\ UNCHANGED <<arcs, manager, started>>

\* leave: manager.remove locks the Call to disconnect it
leave_remove_lock(t) ==
    /\ At(t, "leave", "remove_lock")
    /\ lock(t, tasks[t].call)
    /\ Goto(t, "remove_leave")
    /\ UNCHANGED <<manager, started>>

\* leave: manager.remove disconnects or fails to, releases the lock and, when it
\* disconnected, drops the guild's entry; the handler sends its messages
leave_remove_leave(t) ==
    /\ At(t, "leave", "remove_leave")
    /\ \E res \in Results :
         /\ arcs' = [arcs EXCEPT
                       ![tasks[t].call].call.connected = IF res = "Ok" THEN FALSE ELSE @,
                       ![tasks[t].call].lock = None]
         /\ manager' = IF res = "Ok" THEN 0 ELSE manager
    /\ Return(t)
    /\ UNCHANGED started

\* The next statement of the handler running on t.
StepC(t) ==
    \/ get(t)
    \/ lock_call(t)
    \/ play_ytdl(t)
    \/ play_enqueue(t)
    \/ skip_skip(t)
    \/ read_len(t)
    \/ stop_stop(t)
    \/ say(t)
    \/ join_get_or_insert(t)
    \/ join_connect_lock(t)
    \/ join_connect(t)
    \/ join_events_lock(t)
    \/ join_events(t)
    \/ deafen_lock(t)
    \/ deafen_deafen(t)
    \/ leave_has_handler(t)
    \/ leave_remove_get(t)
    \/ leave_remove_lock(t)
    \/ leave_remove_leave(t)

\* Nothing but the running handlers changes.
Running == UNCHANGED <<voice_states, calls, ev, hist, out>>

NextC ==
    \/ \E t \in TaskIds, cmd \in Commands \ {"ping"} : start(t, cmd) /\ Running
    \/ \E t \in TaskIds : StepC(t) /\ Running
    \/ \E c \in 1..Len(arcs) : driver(c) /\ Running

\* Every task the runtime has given a command to keeps being polled.
SpecC ==
    /\ Init
    /\ [][NextC]_vars
    /\ \A t \in TaskIds : WF_vars(StepC(t) /\ Running)

\* The join and leave commands alone, with the voice states they read.
NextJ ==
    \/ \E g \in GuildIds, u \in UserIds, c \in ChannelIds \cup {None} :
          VoiceStateUpdate(g, u, c) /\ NoHistory
    \/ \E g \in GuildIds, u \in UserIds, t \in ChannelIds :
          CanRegister(g, MaxRejoin) /\ join(g, u, t) /\ NoHistory
    \/ \E g \in GuildIds : leave(g) /\ NoHistory

SpecJ == Init /\ [][NextJ]_vars

----------------------------------------------------------------------------
(* The idle watchdog *)

IsTick == ev.op = "tick"
Requested == ev.remove # "none"

\* C1: in a run of consecutive empty ticks that the watchdog has counted from 0
\* (its counter after the increment is the length of the run), the disconnect is
\* requested on the 5th tick of the run: on no tick before it, and not later.
C1_DisconnectOnFifthEmptyTick ==
    (IsTick /\ ev.timer = hist.run) => (Requested <=> hist.run >= IdleThreshold)

\* C2: a tick at which a member other than the bot is in the voice channel the
\* bot joined sets the counter to 0 and requests no disconnect.
C2_ListenerResetsCounter ==
    (IsTick /\ ~ev.empty) => (ev.timer = 0 /\ ~Requested)

\* C3: a watchdog requests the disconnect only on a tick that ends a run of at
\* least 5 consecutive ticks at which the bot's voice channel was empty.
C3_DisconnectOnlyAfterFiveEmptyTicks ==
    (IsTick /\ Requested) => hist.run >= IdleThreshold

\* C4: a tick is classified empty exactly when no member other than the bot is
\* in the voice channel the bot joined.
C4_EmptyIffNobodyInVoiceChannel ==
    IsTick => (ev.alone <=> ev.empty)

\* C5: a tick decides on the membership as it is at the time of the tick: its
\* classification is the one check_alone gives on the present voice states.
C5_TickSeesPresentMembership ==
    IsTick => (ev.alone <=> ev.fresh)

\* C6: the watchdogs of one session call manager.remove at most once and send
\* the "left voice" notification at most once, whatever remove returned.
C6_AtMostOneDisconnectRequest ==
    \A g \in GuildIds : hist.requests[g] <= 1 /\ hist.notices[g] <= 1

\* C7: once leave or a watchdog has ended the session (manager.remove returned
\* Ok) the manager holds no call for the guild, so neither its queue nor its
\* watchdogs; no tick runs for a guild without a call; and the call a later
\* join creates starts with an empty queue and that join's watchdog alone.
C7_EndedSessionHasNoTicksNoQueue ==
    [][ /\ (ev'.op \in {"leave", "tick"} /\ ev'.remove = "Ok")
            => ev'.guild \notin DOMAIN calls'
        /\ \A g \in GuildIds :
             g \notin DOMAIN calls =>
               /\ ~(ev'.op = "tick" /\ ev'.guild = g)
               /\ g \in DOMAIN calls' =>
                    /\ calls'[g].queue = <<>>
                    /\ Len(calls'[g].periodic) <= 1 ]_vars

\* C7's case: a watchdog's disconnect has ended the session.
C7_Witness ==
    /\ IsTick
    /\ ev.remove = "Ok"
    /\ ev.guild \notin DOMAIN calls

----------------------------------------------------------------------------
(* The commands' rejections *)

\* C8: play with one argument that does not start with "http" replies "Must
\* provide a valid URL", does not call the resolver and changes no call.
C8_InvalidUrlRejected ==
    [][ (ev'.op = "play" /\ Len(ev'.args) = 1 /\ ~starts_with(Head(ev'.args), "http"))
          => /\ ev'.replies = <<"Must provide a valid URL">>
             /\ ~ev'.resolved
             /\ calls' = calls ]_vars

\* C8's case: the rejection, in a guild whose session has a track queued.
C8_Witness ==
    /\ ev.op = "play"
    /\ ev.args = <<"ftp://x">>
    /\ ev.replies = <<"Must provide a valid URL">>
    /\ ev.guild \in DOMAIN calls
    /\ calls[ev.guild].queue # <<>>

\* C9 as claimed: play with no argument or with more than one replies "Must
\* provide a URL to a video or audio" and does not call the resolver.
C9_ArgumentCountRejected ==
    (ev.op = "play" /\ Len(ev.args) # 1)
      => /\ ev.replies = <<"Must provide a URL to a video or audio">>
         /\ ~ev.resolved

\* C9 as amended: play with no argument replies "Must provide a URL to a video
\* or audio"; play with more than one argument is refused before the handler
\* runs and sends nothing; neither calls the resolver.
C9_ArgumentCountHandled ==
    ev.op = "play" =>
      /\ ev.args = <<>> =>
           /\ ev.replies = <<"Must provide a URL to a video or audio">>
           /\ ~ev.resolved
      /\ Len(ev.args) > 1 =>
           /\ ev.replies = <<>>
           /\ ~ev.resolved

\* C9's case: two arguments, the first a URL the handler would have accepted,
\* while a session exists.
C9_Witness ==
    /\ ev.op = "play"
    /\ Len(ev.args) = 2
    /\ starts_with(Head(ev.args), "http")
    /\ ev.guild \in DOMAIN calls

\* C10: skip and stop for a guild the manager holds no call for reply "Not in a
\* voice channel" and change no call.
C10_NoSessionNoMutation ==
    [][ (ev'.op \in {"skip", "stop"} /\ ev'.guild \notin DOMAIN calls)
          => /\ ev'.replies = <<"Not in a voice channel">>
             /\ calls' = calls ]_vars

\* C10's case: stop refused after the guild's session was ended.
C10_Witness ==
    /\ ev.op = "stop"
    /\ ev.replies = <<"Not in a voice channel">>
    /\ ev.guild \notin DOMAIN calls
    /\ voice_states[ev.guild]["u1"] # None

----------------------------------------------------------------------------
(* The queue commands *)

\* C11: a play whose source resolved, on a guild with a session, appends exactly
\* that one source to the end of the session's queue, changes nothing else, and
\* replies with the length of the queue after the append (so k plays on an
\* empty queue reply 1, 2, ..., k).
C11_PlayAppendsAndReportsPosition ==
    [][ (ev'.op = "play" /\ ev'.source = "Ok")
          => LET g == ev'.guild
             IN  /\ g \in DOMAIN calls
                 /\ calls' = [calls EXCEPT ![g].queue = Append(@, Head(ev'.args))]
                 /\ ev'.replies =
                      <<"Added song to queue: position "
                          \o ToString(Len(calls[g].queue) + 1)>> ]_vars

\* C11's case: the second play on a queue that was empty.
C11_Witness ==
    /\ ev.op = "play"
    /\ ev.source = "Ok"
    /\ ev.replies = <<"Added song to queue: position 2">>
    /\ Len(calls[ev.guild].queue) = 2

\* C12: skip on a session whose queue has length n >= 1 leaves the queue with
\* length n - 1 and its reply reports n - 1.
C12_SkipReportsRemaining ==
    [][ (ev'.op = "skip" /\ has_handler(calls, ev'.guild)
                         /\ Len(calls[ev'.guild].queue) >= 1)
          => LET g == ev'.guild
                 n == Len(calls[g].queue)
             IN  /\ Len(calls'[g].queue) = n - 1
                 /\ ev'.replies =
                      <<"Song skipped: " \o ToString(n - 1) \o " in queue.">> ]_vars

\* C13: stop on a guild with a session leaves the session's queue empty whatever
\* its length was, replies "Queue cleared." and keeps the session, otherwise
\* unchanged.
C13_StopClearsQueue ==
    [][ (ev'.op = "stop" /\ has_handler(calls, ev'.guild))
          => LET g == ev'.guild
             IN  /\ has_handler(calls', g)
                 /\ Len(calls'[g].queue) = 0
                 /\ calls' = [calls EXCEPT ![g].queue = <<>>]
                 /\ ev'.replies = <<"Queue cleared.">> ]_vars

\* C13's case: stop came to a queue of two and the session is still there.
C13_Witness ==
    /\ ev.op = "stop"
    /\ ev.before = 2
    /\ has_handler(calls, ev.guild)
    /\ calls[ev.guild].queue = <<>>

\* C14: leave replies exactly "Left voice" when manager.remove succeeded, exactly
\* the manager's error when it failed, and exactly "Not in a voice channel" when
\* the guild had no session.
C14_LeaveReplies ==
    ev.op = "leave"
      => ev.replies = CASE ev.remove = "Ok"  -> <<"Left voice">>
                        [] ev.remove = "Err" -> <<"Failed: Err">>
                        [] OTHER             -> <<"Not in a voice channel">>

\* C15: join by an author in voice channel C: when manager.join succeeds the
\* guild's session is connected to C, the reply is "Joined C", and one watchdog
\* with counter 0 and one end-of-track notifier are added to the session; when
\* it fails the reply is "Failed to join channel" and none is added.  An author
\* in no voice channel gets "Not in a voice" and nothing changes.
C15_JoinRegisters ==
    [][ ev'.op = "join"
          => LET g == ev'.guild
                 c == author_channel(voice_states[g], ev'.args[1])
                 was == IF has_handler(calls, g) THEN calls[g] ELSE NewCall
             IN  IF c = None
                 THEN /\ ev'.replies = <<"Not in a voice">>
                      /\ ev'.success = "none"
                      /\ calls' = calls
                 ELSE /\ has_handler(calls', g)
                      /\ IF ev'.success = "Ok"
                         THEN /\ calls'[g].channel = c
                              /\ calls'[g].connected
                              /\ ev'.replies = <<"Joined " \o mention(c)>>
                              /\ Len(calls'[g].periodic) = Len(was.periodic) + 1
                              /\ calls'[g].periodic[Len(calls'[g].periodic)].timer = 0
                              /\ SubSeq(calls'[g].periodic, 1, Len(was.periodic)) = was.periodic
                              /\ calls'[g].track_end =
                                   Append(was.track_end, [channel_id |-> ev'.args[2]])
                         ELSE /\ ev'.success = "Err"
                              /\ ev'.replies = <<"Failed to join channel">>
                              /\ calls'[g].periodic = was.periodic
                              /\ calls'[g].track_end = was.track_end ]_vars

\* C15's case: the author was in c2 and the join succeeded on a guild that had
\* no session.
C15_Witness ==
    /\ ev.op = "join"
    /\ ev.success = "Ok"
    /\ ev.replies = <<"Joined <#c2>">>
    /\ Len(calls[ev.guild].periodic) = 1
    /\ Len(calls[ev.guild].track_end) = 1

\* C20: a play with one valid URL whose source resolution fails, or whose guild
\* has no session, changes no queue and sends exactly one message, "Error
\* sourcing ffmpeg" or "Not in a voice channel to play in" (the resolver not
\* called); and after a failed resolution a play on that session with a source
\* that resolves is still possible, the queue not being full.
C20_FailedPlayChangesNothing ==
    /\ [][ (/\ ev'.op = "play"
            /\ Len(ev'.args) = 1
            /\ valid_url(Head(ev'.args))
            /\ ev'.source # "Ok")
             => /\ calls' = calls
                /\ ev'.replies =
                     IF has_handler(calls, ev'.guild)
                     THEN <<"Error sourcing ffmpeg">>
                     ELSE <<"Not in a voice channel to play in">>
                /\ ev'.source = IF has_handler(calls, ev'.guild) THEN "Err" ELSE "none"
                /\ ev'.resolved = has_handler(calls, ev'.guild) ]_vars
    /\ [](\A url \in {"https://a.test/x.mp3"} :
            (/\ ev.op = "play"
             /\ ev.source = "Err"
             /\ Len(calls[ev.guild].queue) < MaxQueue)
              => ENABLED (/\ play(ev.guild, <<url>>)
                          /\ ev'.source = "Ok"
                          /\ calls'[ev.guild].queue = Append(calls[ev.guild].queue, url)))

\* C20's case: the resolution failed on a session with one track queued, which
\* is still the queue.
C20_Witness ==
    /\ ev.op = "play"
    /\ ev.source = "Err"
    /\ ev.replies = <<"Error sourcing ffmpeg">>
    /\ Len(calls[ev.guild].queue) = 1

----------------------------------------------------------------------------
(* Registrations *)

\* The watchdogs registered for a guild.
Watchdogs(g) == IF has_handler(calls, g) THEN calls[g].periodic ELSE <<>>

\* C16: whatever joins and leaves came, a guild whose session is connected has
\* exactly one watchdog (one counter) registered, and any other guild has none.
C16_OneWatchdogPerSession ==
    \A g \in GuildIds :
      Len(Watchdogs(g)) = IF has_handler(calls, g) /\ calls[g].connected THEN 1 ELSE 0

----------------------------------------------------------------------------
(* Failures *)

\* The number of failed sends among sent.
Failed(sent) == Cardinality({i \in 1..Len(sent) : sent[i] = "Err"})

\* The calls after the command ev' tells of, as the outcomes of manager.join,
\* manager.remove and the resolver alone determine them.
C17_Effect ==
    LET e == ev'
        g == e.guild
        was == IF has_handler(calls, g) THEN calls[g] ELSE NewCall
    IN  /\ e.op \notin {"join", "leave"} => voice_states' = voice_states
        /\ CASE e.op = "play" ->
                  calls' = IF e.source = "Ok"
                           THEN [calls EXCEPT ![g].queue = Append(@, Head(e.args))]
                           ELSE calls
             [] e.op = "leave" ->
                  calls' = IF e.remove = "Ok"
                           THEN [h \in DOMAIN calls \ {g} |-> calls[h]]
                           ELSE calls
             [] e.op = "join" ->
                  IF e.success = "none"
                  THEN UNCHANGED <<voice_states, calls>>
                  ELSE /\ has_handler(calls', g)
                       /\ calls'[g].deaf
                       /\ Len(calls'[g].periodic) =
                            Len(was.periodic) + IF e.success = "Ok" THEN 1 ELSE 0
             [] e.op = "stop" ->
                  calls' = IF has_handler(calls, g)
                           THEN [calls EXCEPT ![g].queue = <<>>]
                           ELSE calls
             [] e.op = "skip" ->
                  calls' = IF has_handler(calls, g)
                           THEN [calls EXCEPT ![g].queue = queue_skip(@)]
                           ELSE calls
             [] OTHER -> calls' = calls

\* C17: every command returns Ok(()) whatever manager.join, manager.remove, the
\* resolver and the sends returned; a failed join, remove or resolution is told
\* in a message (the resolution is logged too), every failed send is logged once,
\* and a command with a failed send leaves the calls and voice states as the
\* other outcomes alone determine them.
C17_FailuresNeverPropagate ==
    /\ [](ev.op \in Commands
            => /\ out.result = "Ok"
               /\ Len(out.sent) = Len(ev.replies)
               /\ ev.success = "Err" => ev.replies = <<"Failed to join channel">>
               /\ ev.remove = "Err" => Head(ev.replies) = "Failed: Err"
               /\ ev.source = "Err" => /\ ev.replies = <<"Error sourcing ffmpeg">>
                                       /\ Head(out.log) = "Err starting source"
               /\ Len(out.log) = Failed(out.sent) + IF ev.source = "Err" THEN 1 ELSE 0)
    /\ [][ (ev'.op \in Commands /\ Failed(out'.sent) > 0) => C17_Effect ]_vars

\* C17's case: a leave whose remove failed and whose two messages both failed
\* to be sent has returned.
C17_Witness ==
    /\ ev.op = "leave"
    /\ ev.remove = "Err"
    /\ out.sent = <<"Err", "Err">>
    /\ out.log = <<"Error sending message", "Error sending message">>
    /\ out.result = "Ok"

----------------------------------------------------------------------------
(* The session lock *)

\* Where a handler waits for the lock of the Call it got.
LockPcs == {"lock", "connect_lock", "events_lock", "deafen_lock", "remove_lock"}

\* Where play, skip and stop read or mutate the queue, and send their message.
QueuePcs == {"ytdl", "enqueue", "skip", "stop", "len", "say"}

\* C18: a play, skip or stop reads and mutates the queue only while it holds the
\* Call's lock, and from its own mutation to the read of the length it reports
\* and the sending of the message no other handler has mutated that queue.
C18_QueueCommandsSerialized ==
    \A t \in TaskIds :
      tasks[t].cmd \in {"play", "skip", "stop"}
        => /\ tasks[t].pc \in QueuePcs => arcs[tasks[t].call].lock = t
           /\ tasks[t].pc \in {"len", "say"} => arcs[tasks[t].call].last = t

\* C18's case: a play has read the length it reports while a skip or a stop of
\* the same Call waits for the lock.
C18_Witness ==
    \E t, u \in TaskIds :
      /\ t # u
      /\ At(t, "play", "say")
      /\ tasks[t].len = 1
      /\ tasks[u].cmd \in {"skip", "stop"}
      /\ tasks[u].pc = "lock"
      /\ tasks[u].call = tasks[t].call

\* C19: no handler waits for a lock it holds itself; a lock that is held is held
\* by a handler still running on that Call; while a handler is running some
\* handler can take a step; and every handler that was started returns.
C19_HandlersComplete ==
    /\ [](\A t \in TaskIds :
            tasks[t].pc \in LockPcs => arcs[tasks[t].call].lock # t)
    /\ [](\A c \in 1..Len(arcs) :
            arcs[c].lock # None => /\ tasks[arcs[c].lock].pc # "idle"
                                   /\ tasks[arcs[c].lock].call = c)
    /\ []((\E t \in TaskIds : tasks[t].pc # "idle")
            => ENABLED (\E t \in TaskIds : StepC(t)))
    /\ \A t \in TaskIds : (tasks[t].pc # "idle") ~> (tasks[t].pc = "idle")

\* C19's case: a join has registered its events and waits in deafen for the
\* lock, which the handler on the other task holds.
C19_Witness ==
    \E t, u \in TaskIds :
      /\ t # u
      /\ At(t, "join", "deafen_lock")
      /\ Len(arcs[tasks[t].call].call.periodic) > 0
      /\ arcs[tasks[t].call].lock = u

====
